---- MODULE Spec2Model ----
(***************************************************************************)
(* Co-authorship portfolio: the extractor (507final_project/               *)
(* DataStructure.py) aggregates author records from articles and dumps     *)
(* them to a per-category file; the analysis program (si507final/          *)
(* coauthor.py) loads a random sample of the records and runs its          *)
(* ranking, comparison and chart operations on them.                       *)
(*                                                                         *)
(* Representation.  A Python dict is an insertion-ordered mapping: it is   *)
(* a sequence of entries here.  A text is a sequence of one-character      *)
(* strings, so that lower() and replace(' ', '_') are computed.  Author    *)
(* objects of the arxiv library compare by name (Result.Author.__eq__),    *)
(* so an article's author list is a sequence of names.                     *)
(***************************************************************************)
EXTENDS Integers, Sequences, FiniteSets, TLC

VARIABLES
    xpc,          \* extractor: "idle", "running" (inside extract_authors), "done"
    xcategory,    \* extract_authors: its category argument
    xauthors,     \* extract_authors: its local dict `authors`
    articles,     \* the articles extract_authors has iterated over so far
    files,        \* author_data/: file name -> dumped content, or NoFile
    pc,           \* main() of coauthor.py: the next statement
    entered,      \* the category typed at the prompt
    authors,      \* analyzer.authors (shared by visualizer and comparer)
    ret,          \* the value get_articles returned
    stdout,       \* lines printed
    opened,       \* files opened for reading
    shown,        \* charts rendered, in order
    ranking,      \* most_influential_authors
    target,       \* the author name typed at the second prompt
    common,       \* the result of most_common_coauthors
    raised        \* the exception that ended main, or "none"

vars == <<xpc, xcategory, xauthors, articles, files, pc, entered, authors, ret,
          stdout, opened, shown, ranking, target, common, raised>>

xvars == <<xpc, xcategory, xauthors, articles>>
mvars == <<pc, entered, authors, ret, stdout, opened, shown, ranking, target,
           common, raised>>

-----------------------------------------------------------------------------
(* Bounds of the model. *)

\* Total number of author entries over all articles fed to extract_authors.
MaxAuthorSlots == 4

\* Stands for the sample size 50 of get_articles, scaled to the three names.
SampleSize == 2

\* Stands for the top-10 cut of the bar charts, scaled to the three names.
TopN == 1

AuthorNames == {"Ann", "Bob", "Cy"}

\* Python compares the names as strings.
NameRank == [n \in AuthorNames |-> CASE n = "Ann" -> 1 [] n = "Bob" -> 2 [] OTHER -> 3]

\* Names typed at the author prompt: the known ones and a stranger.
TypedNames == AuthorNames \cup {"Zed"}

-----------------------------------------------------------------------------
(* Texts. *)

UPPER == <<"A","B","C","D","E","F","G","H","I","J","K","L","M",
           "N","O","P","Q","R","S","T","U","V","W","X","Y","Z">>
LOWER == <<"a","b","c","d","e","f","g","h","i","j","k","l","m",
           "n","o","p","q","r","s","t","u","v","w","x","y","z">>

LowerChar(c) ==
    IF \E i \in DOMAIN UPPER : UPPER[i] = c
    THEN LOWER[CHOOSE i \in DOMAIN UPPER : UPPER[i] = c]
    ELSE c

\* str.lower()
Lower(s) == [i \in DOMAIN s |-> LowerChar(s[i])]

\* str.replace(' ', '_')
ReplaceSpaces(s) == [i \in DOMAIN s |-> IF s[i] = " " THEN "_" ELSE s[i]]

physics == <<"p","h","y","s","i","c","s">>
mathematics == <<"m","a","t","h","e","m","a","t","i","c","s">>
computer_science == <<"c","o","m","p","u","t","e","r"," ","s","c","i","e","n","c","e">>
quantitative_biology ==
    <<"q","u","a","n","t","i","t","a","t","i","v","e"," ","b","i","o","l","o","g","y">>
quantitative_finance ==
    <<"q","u","a","n","t","i","t","a","t","i","v","e"," ","f","i","n","a","n","c","e">>
statistics == <<"s","t","a","t","i","s","t","i","c","s">>

\* The list get_articles accepts (and the extractor iterates over).
CATEGORIES == {physics, mathematics, computer_science, quantitative_biology,
               quantitative_finance, statistics}

\* f'author_data/{category}_authors.json'
FileName(category) == <<"author_data/">> \o category \o <<"_authors.json">>

FileNames == {FileName(ReplaceSpaces(c)) : c \in CATEGORIES}

NoFile == "NoFile"

\* An optional value: None, or Some(v) holding v.
None == <<>>
Some(v) == <<v>>
Val(o) == o[1]

\* Categories the extractor is run on in the model.
ExtractedCategories == {physics, computer_science}

\* Texts typed at the category prompt.
TypedCategories ==
    { <<"P","h","y","s","i","c","s">>,
      <<"C","O","M","P","U","T","E","R"," ","S","C","I","E","N","C","E">>,
      <<"b","i","o","l","o","g","y">>,
      <<"c","o","m","p","u","t","e","r","_","s","c","i","e","n","c","e">> }

-----------------------------------------------------------------------------
(* Dicts as insertion-ordered sequences of entries                          *)
(*   [name |-> key, co_authors |-> list, num_pubs |-> int].                 *)

Range(s) == {s[i] : i \in DOMAIN s}

HasKey(m, k) == \E i \in DOMAIN m : m[i].name = k

IndexOf(m, k) == CHOOSE i \in DOMAIN m : m[i].name = k

Keys(m) == {m[i].name : i \in DOMAIN m}

\* The orders in which iteration can yield the elements of a Python set S:
\* the order of a set of strings depends on their (per-run) hashes.
Orderings(S) ==
    {l \in [1..Cardinality(S) -> S] : \A i, j \in 1..Cardinality(S) : l[i] = l[j] => i = j}

\* list(set(l))
ListOfSet(l) == Orderings(Range(l))

-----------------------------------------------------------------------------
(* DataStructure.py: ArticleAnalyzer.extract_authors                        *)

\* An article's author list: a non-empty sequence of names, repeats allowed.
AuthorLists(maxLen) == UNION {[1..n -> AuthorNames] : n \in 1..maxLen}

RECURSIVE TotalSlots(_)
TotalSlots(arts) ==
    IF arts = <<>> THEN 0 ELSE Len(Head(arts)) + TotalSlots(Tail(arts))

\* Variant: the authors are told apart by their place in the list, not by name.
CoAuthorsByIdentity(authors_list, i) ==
    [j \in 1..(Len(authors_list) - 1) |->
       IF j < i THEN authors_list[j] ELSE authors_list[j + 1]]

\* [a.name for a in authors_list if a != author], author = authors_list[i]
CoAuthorsOf(authors_list, i) ==
    SelectSeq(authors_list, LAMBDA a : a # authors_list[i])

\* Variant: a known author's publication count is not incremented.
ProcessAuthorNoCount(auths, authors_list, i) ==
    LET author_name == authors_list[i]
        co_authors == CoAuthorsOf(authors_list, i)
    IN  IF ~HasKey(auths, author_name)
        THEN {Append(auths, [name |-> author_name,
                             co_authors |-> co_authors,
                             num_pubs |-> 1])}
        ELSE LET k == IndexOf(auths, author_name)
                 extended == auths[k].co_authors \o co_authors
             IN  {[auths EXCEPT ![k] = [name |-> author_name,
                                        co_authors |-> l,
                                        num_pubs |-> auths[k].num_pubs]] :
                    l \in ListOfSet(extended)}

\* Variant: a known author's co-authors are replaced by the article's.
ProcessAuthorOverwrite(auths, authors_list, i) ==
    LET author_name == authors_list[i]
        co_authors == CoAuthorsOf(authors_list, i)
    IN  IF ~HasKey(auths, author_name)
        THEN {Append(auths, [name |-> author_name,
                             co_authors |-> co_authors,
                             num_pubs |-> 1])}
        ELSE LET k == IndexOf(auths, author_name)
             IN  {[auths EXCEPT ![k] = [name |-> author_name,
                                        co_authors |-> l,
                                        num_pubs |-> auths[k].num_pubs + 1]] :
                    l \in ListOfSet(co_authors)}

\* The body of the inner loop for authors_list[i]: the dicts it can leave.
ProcessAuthor(auths, authors_list, i) ==
    LET author_name == authors_list[i]
        co_authors == CoAuthorsOf(authors_list, i)
    IN  IF ~HasKey(auths, author_name)
        THEN {Append(auths, [name |-> author_name,
                             co_authors |-> co_authors,
                             num_pubs |-> 1])}
        ELSE LET k == IndexOf(auths, author_name)
                 extended == auths[k].co_authors \o co_authors
             IN  {[auths EXCEPT ![k] = [name |-> author_name,
                                        co_authors |-> l,
                                        num_pubs |-> auths[k].num_pubs + 1]] :
                    l \in ListOfSet(extended)}

\* The inner loop from position i on.
RECURSIVE ProcessAuthorsFrom(_, _, _)
ProcessAuthorsFrom(auths, authors_list, i) ==
    IF i > Len(authors_list)
    THEN {auths}
    ELSE UNION {ProcessAuthorsFrom(a, authors_list, i + 1) :
                  a \in ProcessAuthor(auths, authors_list, i)}

\* extract_authors is entered: authors = {}
BeginExtract ==
    /\ xpc = "idle"
    /\ pc = "get_articles"
    /\ \E category \in ExtractedCategories : xcategory' = Some(category)
    /\ xpc' = "running"
    /\ xauthors' = <<>>
    /\ articles' = <<>>
    /\ UNCHANGED <<files, mvars>>

\* One iteration of `for article in articles`.
ExtractArticle ==
    /\ xpc = "running"
    /\ TotalSlots(articles) < MaxAuthorSlots
    /\ \E authors_list \in AuthorLists(MaxAuthorSlots - TotalSlots(articles)) :
         /\ xauthors' \in ProcessAuthorsFrom(xauthors, authors_list, 1)
         /\ articles' = Append(articles, authors_list)
    /\ UNCHANGED <<xpc, xcategory, files, mvars>>

\* The loop is over: the dict is dumped to the category's file.
DumpAuthors ==
    /\ xpc = "running"
    /\ files' = [files EXCEPT ![FileName(ReplaceSpaces(Val(xcategory)))] = xauthors]
    /\ xpc' = "done"
    /\ UNCHANGED <<xcategory, xauthors, articles, mvars>>

-----------------------------------------------------------------------------
(* coauthor.py: helpers of the analysis program                             *)

Reverse(s) == [i \in 1..Len(s) |-> s[Len(s) + 1 - i]]

Min(a, b) == IF a < b THEN a ELSE b

\* l[:n]
Prefix(l, n) == SubSeq(l, 1, Min(n, Len(l)))

\* A stable ascending sort of entries [key, val], by insertion: an entry goes
\* behind every entry whose key is not larger.
RECURSIVE InsertAsc(_, _)
InsertAsc(sorted, e) ==
    IF sorted = <<>> THEN <<e>>
    ELSE IF e.key < Head(sorted).key THEN <<e>> \o sorted
    ELSE <<Head(sorted)>> \o InsertAsc(Tail(sorted), e)

RECURSIVE SortAsc(_)
SortAsc(s) ==
    IF s = <<>> THEN <<>>
    ELSE InsertAsc(SortAsc(SubSeq(s, 1, Len(s) - 1)), s[Len(s)])

\* Variant: an ascending sort whose result is reversed (sorted(...)[::-1]).
SortThenReverse(s) == Reverse(SortAsc(s))

\* sorted(..., reverse=True) and list.sort(reverse=True): CPython reverses the
\* list, sorts it stably in ascending order and reverses the result.
SortReverse(s) == Reverse(SortAsc(Reverse(s)))

Vals(s) == [i \in DOMAIN s |-> s[i].val]

\* random.sample(list(d.items()), k), as a dict: k distinct entries, any order.
Samples(d, k) ==
    {[i \in 1..k |-> d[p[i]]] :
       p \in {q \in [1..k -> DOMAIN d] : \A i, j \in 1..k : q[i] = q[j] => i = j}}

\* The (author, co_author) pairs in the order the nested loops visit them.
RECURSIVE Links(_)
Links(d) ==
    IF d = <<>> THEN <<>>
    ELSE [j \in 1..Len(Head(d).co_authors) |-> <<Head(d).name, Head(d).co_authors[j]>>]
         \o Links(Tail(d))

\* The weighted undirected graph built from a sequence of links: the first
\* visit of an edge sets its weight to 1, every later one adds 1.
Graph(links) ==
    {[edge |-> e, weight |-> Cardinality({i \in DOMAIN links : {links[i][1], links[i][2]} = e})] :
       e \in {{links[i][1], links[i][2]} : i \in DOMAIN links}}

\* AuthorComparer.most_influential
MostInfluential(d) ==
    Vals(SortReverse([i \in DOMAIN d |-> [key |-> d[i].num_pubs, val |-> d[i]]]))

\* max(counts, key=counts.get) of an insertion-ordered dict of [k, n]: the
\* first entry with the largest n.
MaxEntry(counts) ==
    counts[CHOOSE i \in DOMAIN counts :
             /\ \A j \in DOMAIN counts : counts[j].n <= counts[i].n
             /\ \A j \in 1..(i - 1) : counts[j].n < counts[i].n]

\* AuthorComparer.num_coauths_all (on a non-empty dict)
NumCoauthsAll(d) ==
    MaxEntry([i \in DOMAIN d |-> [k |-> d[i].name, n |-> Len(d[i].co_authors)]])

\* AuthorComparer.num_coauths
NumCoauths(d, target_author) ==
    IF HasKey(d, target_author)
    THEN Len(d[IndexOf(d, target_author)].co_authors)
    ELSE 0

\* tuple(sorted((author, coauthor)))
SortedPair(a, b) == IF NameRank[b] < NameRank[a] THEN <<b, a>> ELSE <<a, b>>

\* The loop of most_common_coauthors: the dict coauthor_counts after the links.
RECURSIVE CountPairs(_, _)
CountPairs(counts, links) ==
    IF links = <<>> THEN counts
    ELSE LET pair == SortedPair(Head(links)[1], Head(links)[2])
         IN  IF \A i \in DOMAIN counts : counts[i].k # pair
             THEN CountPairs(Append(counts, [k |-> pair, n |-> 1]), Tail(links))
             ELSE LET i == CHOOSE i \in DOMAIN counts : counts[i].k = pair
                  IN  CountPairs([counts EXCEPT ![i].n = @ + 1], Tail(links))

CoauthorCounts(d) == CountPairs(<<>>, Links(d))

-----------------------------------------------------------------------------
(* coauthor.py: main(), one action per statement                            *)

InvalidCategoryMsg == [text |-> "Invalid category. Please try again."]

\* Variant: the text is compared with the file-name forms of the categories.
AcceptedAfterReplace(category) == category \in {ReplaceSpaces(c) : c \in CATEGORIES}

\* category not in [...] fails, i.e. the lower-cased text is accepted
Accepted(category) == category \in CATEGORIES

\* analyzer.get_articles(): prompt, validate, open, load, sample
GetArticles ==
    /\ pc = "get_articles"
    /\ xpc # "running"
    /\ \E typed \in TypedCategories :
         LET category == Lower(typed)
             f == FileName(ReplaceSpaces(category))
         IN  /\ entered' = Some(typed)
             /\ IF ~Accepted(category)
                THEN /\ stdout' = Append(stdout, InvalidCategoryMsg)
                     /\ ret' = None
                     /\ pc' = "visualize_network"
                     /\ UNCHANGED <<authors, opened, raised>>
                ELSE IF files[f] = NoFile
                THEN /\ raised' = "FileNotFoundError"
                     /\ pc' = "done"
                     /\ UNCHANGED <<authors, ret, stdout, opened>>
                ELSE IF Len(files[f]) < SampleSize
                THEN /\ opened' = opened \cup {f}
                     /\ raised' = "ValueError"
                     /\ pc' = "done"
                     /\ UNCHANGED <<authors, ret, stdout>>
                ELSE /\ opened' = opened \cup {f}
                     /\ \E articles_ \in Samples(files[f], SampleSize) :
                          /\ authors' = articles_
                          /\ ret' = Some(articles_)
                     /\ pc' = "visualize_network"
                     /\ UNCHANGED <<stdout, raised>>
    /\ UNCHANGED <<xvars, files, shown, ranking, target, common>>

\* visualizer.visualize_network()
VisualizeNetwork ==
    /\ pc = "visualize_network"
    /\ shown' = Append(shown, [chart |-> "Author and Co-Author Network",
                               data |-> Graph(Links(authors))])
    /\ pc' = "visualize_pubs"
    /\ UNCHANGED <<xvars, files, entered, authors, ret, stdout, opened, ranking,
                   target, common, raised>>

\* visualizer.visualize_pubs()
VisualizePubs ==
    /\ pc = "visualize_pubs"
    /\ shown' = Append(shown, [chart |-> "Number of Publications for Each Author",
                               data |-> [i \in DOMAIN authors |->
                                           <<authors[i].name, authors[i].num_pubs>>]])
    /\ pc' = "most_influential"
    /\ UNCHANGED <<xvars, files, entered, authors, ret, stdout, opened, ranking,
                   target, common, raised>>

\* Variant: the ranking is also stored back as the authors mapping.
MostInfluentialInPlace ==
    /\ pc = "most_influential"
    /\ ranking' = Some(MostInfluential(authors))
    /\ authors' = MostInfluential(authors)
    /\ pc' = "visualize_top_authors"
    /\ UNCHANGED <<xvars, files, entered, ret, stdout, opened, shown,
                   target, common, raised>>

\* most_influential_authors = comparer.most_influential()
MostInfluentialStep ==
    /\ pc = "most_influential"
    /\ ranking' = Some(MostInfluential(authors))
    /\ pc' = "visualize_top_authors"
    /\ UNCHANGED <<xvars, files, entered, authors, ret, stdout, opened, shown,
                   target, common, raised>>

\* visualizer.visualize_top_authors(most_influential_authors)
VisualizeTopAuthors ==
    /\ pc = "visualize_top_authors"
    /\ LET top_authors == Prefix(Val(ranking), TopN)
       IN  shown' = Append(shown, [chart |-> "Top 10 Authors with the Most Publications",
                                   data |-> [i \in DOMAIN top_authors |->
                                               <<top_authors[i].name, top_authors[i].num_pubs>>]])
    /\ pc' = "visualize_unique_coauthors"
    /\ UNCHANGED <<xvars, files, entered, authors, ret, stdout, opened, ranking,
                   target, common, raised>>

\* comparer.visualize_unique_coauthors()
VisualizeUniqueCoauthors ==
    /\ pc = "visualize_unique_coauthors"
    /\ LET author_coauthors ==
               Vals(SortReverse([i \in DOMAIN authors |->
                      [key |-> Len(authors[i].co_authors),
                       val |-> <<authors[i].name, Len(authors[i].co_authors)>>]]))
       IN  shown' = Append(shown, [chart |-> "Top 10 Authors with the Most Unique Co-authors",
                                   data |-> Prefix(author_coauthors, TopN)])
    /\ pc' = "compare_authors"
    /\ UNCHANGED <<xvars, files, entered, authors, ret, stdout, opened, ranking,
                   target, common, raised>>

\* The text compare_authors returns.
Comparison(d, user_author) ==
    LET most == NumCoauthsAll(d)
        user_author_coauthors == NumCoauths(d, user_author)
    IN  IF user_author = most.k
        THEN [text |-> "is the most influential author", author |-> user_author,
              n |-> most.n]
        ELSE IF user_author_coauthors = most.n
        THEN [text |-> "is tied for the most unique co-authors", author |-> user_author,
              with |-> most.k, n |-> most.n]
        ELSE [text |-> "has fewer unique co-authors", author |-> user_author,
              n |-> user_author_coauthors, most |-> most.k, most_n |-> most.n]

\* target_author = input(...); print(comparer.compare_authors(user_author))
\* max() of the empty dict of num_coauths_all raises ValueError.
CompareAuthors ==
    /\ pc = "compare_authors"
    /\ \E typed \in TypedNames :
         /\ target' = Some(typed)
         /\ IF authors = <<>>
            THEN /\ raised' = "ValueError"
                 /\ pc' = "done"
                 /\ UNCHANGED stdout
            ELSE /\ stdout' = Append(stdout, Comparison(authors, typed))
                 /\ pc' = "visualize_author_network"
                 /\ UNCHANGED raised
    /\ UNCHANGED <<xvars, files, entered, authors, ret, opened, shown, ranking, common>>

\* visualizer.visualize_author_network(user_author)
VisualizeAuthorNetwork ==
    /\ pc = "visualize_author_network"
    /\ IF ~HasKey(authors, Val(target))
       THEN /\ stdout' = Append(stdout, [text |-> "No data available for author",
                                         author |-> Val(target)])
            /\ UNCHANGED shown
       ELSE /\ shown' = Append(shown,
                   [chart |-> "co-author network",
                    data |-> Graph(Links(<<authors[IndexOf(authors, Val(target))]>>))])
            /\ UNCHANGED stdout
    /\ pc' = "most_common_coauthors"
    /\ UNCHANGED <<xvars, files, entered, authors, ret, opened, ranking, target,
                   common, raised>>

\* most_common_coauthors, num_articles = comparer.most_common_coauthors(); print(...)
\* max() of an empty coauthor_counts raises ValueError.
MostCommonCoauthors ==
    /\ pc = "most_common_coauthors"
    /\ LET coauthor_counts == CoauthorCounts(authors)
       IN  IF coauthor_counts = <<>>
           THEN /\ raised' = "ValueError"
                /\ UNCHANGED <<common, stdout>>
           ELSE LET most == MaxEntry(coauthor_counts)
                IN  /\ common' = Some([pair |-> most.k, count |-> most.n])
                    /\ stdout' = Append(stdout,
                          [text |-> "The authors who have co-authored the most articles together",
                           pair |-> most.k, n |-> most.n])
                    /\ UNCHANGED raised
    /\ pc' = "done"
    /\ UNCHANGED <<xvars, files, entered, authors, ret, opened, shown, ranking, target>>

-----------------------------------------------------------------------------
Init ==
    /\ xpc = "idle"
    /\ xcategory = None
    /\ xauthors = <<>>
    /\ articles = <<>>
    /\ files = [f \in FileNames |-> NoFile]
    /\ pc = "get_articles"
    /\ entered = None
    /\ authors = <<>>
    /\ ret = None
    /\ stdout = <<>>
    /\ opened = {}
    /\ shown = <<>>
    /\ ranking = None
    /\ target = None
    /\ common = None
    /\ raised = "none"

Next ==
    \/ BeginExtract
    \/ ExtractArticle
    \/ DumpAuthors
    \/ GetArticles
    \/ VisualizeNetwork
    \/ VisualizePubs
    \/ MostInfluentialStep
    \/ VisualizeTopAuthors
    \/ VisualizeUniqueCoauthors
    \/ CompareAuthors
    \/ VisualizeAuthorNetwork
    \/ MostCommonCoauthors

Spec == Init /\ [][Next]_vars

-----------------------------------------------------------------------------
(* Properties *)

HasDuplicates(l) == \E i, j \in DOMAIN l : i # j /\ l[i] = l[j]

Occurrences(l, x) == Cardinality({i \in DOMAIN l : l[i] = x})

\* The articles of the sequence whose author list contains every name of S.
ArticlesWith(S) == {k \in DOMAIN articles : S \subseteq Range(articles[k])}

\* The category typed at the prompt was rejected.
CategoryRejected == entered # None /\ Lower(Val(entered)) \notin CATEGORIES

\* C1: whatever articles extract_authors has processed, no author record
\* lists the author's own name among its co_authors.
NoSelfCoauthor ==
    \A i \in DOMAIN xauthors : xauthors[i].name \notin Range(xauthors[i].co_authors)

\* An article that repeats a name was processed and that author has co-authors.
WitnessRepeatedName ==
    \E k \in DOMAIN articles, i \in DOMAIN xauthors :
        /\ Occurrences(articles[k], xauthors[i].name) > 1
        /\ xauthors[i].co_authors # <<>>

\* C2: every author record's num_pubs is the number of processed articles
\* whose author list contains the author's name.
NumPubsIsArticleCount ==
    \A i \in DOMAIN xauthors :
        xauthors[i].num_pubs = Cardinality(ArticlesWith({xauthors[i].name}))

\* C3 (as claimed): processing an article that already occurs among the
\* processed ones leaves every record's co-authors and num_pubs as they were.
RefeedIsIdempotent ==
    [][(xpc = "running" /\ Len(articles') = Len(articles) + 1
        /\ articles'[Len(articles')] \in Range(articles))
       => /\ Len(xauthors') = Len(xauthors)
          /\ \A i \in DOMAIN xauthors :
               /\ xauthors'[i].name = xauthors[i].name
               /\ Range(xauthors'[i].co_authors) = Range(xauthors[i].co_authors)
               /\ xauthors'[i].num_pubs = xauthors[i].num_pubs]_vars

\* C3 (amended): processing an article that already occurs among the
\* processed ones keeps the records' keys, order and sets of co-author names,
\* and adds to each num_pubs the number of times the name occurs in the
\* article's author list.
RefeedKeepsCoauthorsAddsPubs ==
    [][(xpc = "running" /\ Len(articles') = Len(articles) + 1
        /\ articles'[Len(articles')] \in Range(articles))
       => /\ Len(xauthors') = Len(xauthors)
          /\ \A i \in DOMAIN xauthors :
               /\ xauthors'[i].name = xauthors[i].name
               /\ Range(xauthors'[i].co_authors) = Range(xauthors[i].co_authors)
               /\ xauthors'[i].num_pubs =
                    xauthors[i].num_pubs
                      + Occurrences(articles'[Len(articles')], xauthors[i].name)]_vars

\* The last processed article had been processed before, with co-authors.
WitnessRefeed ==
    /\ Len(articles) >= 2
    /\ \E k \in 1..(Len(articles) - 1) : articles[k] = articles[Len(articles)]
    /\ \E i \in DOMAIN xauthors : xauthors[i].co_authors # <<>>

\* C4: no co-author name occurs more than once in a record's co_authors.
CoAuthorsDeduplicated ==
    \A i \in DOMAIN xauthors : ~HasDuplicates(xauthors[i].co_authors)

\* C5: the ranking holds exactly the author records, in non-increasing order
\* of num_pubs, and records with equal num_pubs keep the order they have in
\* the authors mapping.
RankingStableDescending ==
    ranking # None =>
        LET r == Val(ranking)
        IN  /\ Len(r) = Len(authors)
            /\ Range(r) = Range(authors)
            /\ \A i, j \in DOMAIN r :
                 i < j =>
                   /\ r[i].num_pubs >= r[j].num_pubs
                   /\ r[i].num_pubs = r[j].num_pubs
                        => IndexOf(authors, r[i].name) < IndexOf(authors, r[j].name)

\* A ranking of records with a tie, and one where the sort moved a record.
WitnessRankingTie ==
    /\ ranking # None
    /\ \E i, j \in DOMAIN Val(ranking) :
         /\ i < j
         /\ Val(ranking)[i].num_pubs = Val(ranking)[j].num_pubs
         /\ NameRank[Val(ranking)[j].name] < NameRank[Val(ranking)[i].name]

\* C6: when the lower-cased category is not an accepted one, 'Invalid
\* category' is printed, no file is opened, the authors attribute stays the
\* empty dict and get_articles returns nothing.
InvalidCategoryLoadsNothing ==
    CategoryRejected =>
        /\ stdout # <<>> /\ stdout[1] = InvalidCategoryMsg
        /\ opened = {}
        /\ authors = <<>>
        /\ ret = None

\* A rejected category was typed while the extractor's files exist.
WitnessInvalidCategory ==
    /\ CategoryRejected
    /\ \E f \in FileNames : files[f] # NoFile /\ files[f] # <<>>

\* C7: once get_articles has returned, no statement of main changes the
\* authors mapping (its keys, their order, any co_authors or num_pubs).
AnalysisReadOnly == [][pc # "get_articles" => authors' = authors]_vars

\* A whole analysis ran on loaded records, with the top cut dropping a record.
WitnessAnalysisDone ==
    /\ pc = "done"
    /\ raised = "none"
    /\ common # None
    /\ authors # <<>>
    /\ Len(authors) > TopN
    /\ ranking # None /\ Val(ranking) # authors

\* C8: the pair most_common_coauthors returns shares the most articles and
\* the count is the number of processed articles both authors are on.
MostCommonCountsArticles ==
    common # None =>
        /\ Val(common).count
             = Cardinality(ArticlesWith({Val(common).pair[1], Val(common).pair[2]}))
        /\ \A a, b \in AuthorNames :
             a # b => Cardinality(ArticlesWith({a, b})) <= Val(common).count

\* C9: after a rejected category no later statement of main runs and main
\* ends without an exception.
InvalidCategoryAborts ==
    CategoryRejected =>
        /\ shown = <<>>
        /\ ranking = None
        /\ target = None
        /\ common = None
        /\ raised = "none"

\* C10: whenever b is among a's co_authors, b has a record and a is among
\* b's co_authors.
CoauthorsSymmetric ==
    \A i \in DOMAIN xauthors :
        \A b \in Range(xauthors[i].co_authors) :
            /\ HasKey(xauthors, b)
            /\ xauthors[i].name \in Range(xauthors[IndexOf(xauthors, b)].co_authors)

\* An author with two co-authors gathered over several articles.
WitnessCoauthors ==
    /\ Len(articles) >= 2
    /\ \E i \in DOMAIN xauthors :
         /\ Cardinality(Range(xauthors[i].co_authors)) >= 2
         /\ xauthors[i].num_pubs >= 2

====
